---- MODULE Spec2Model ----
(***************************************************************************)
(* A model of package inspect (Source, Merge, InspectStrings) and of the   *)
(* defaults transformer that fills in archaius.enabled for every Java      *)
(* service profile.                                                        *)
(*                                                                         *)
(* Go values are modelled as records tagged by their reflect kind:         *)
(*   [k |-> "nil"]            a nil interface (JSON null)                  *)
(*   [k |-> "num", n |-> 1]   a number                                     *)
(*   [k |-> "str", s |-> "a"] a string                                     *)
(*   [k |-> "bool", b |-> TRUE]                                            *)
(*   [k |-> "seq", e |-> <<...>>]  a slice                                 *)
(*   [k |-> "ref", a |-> n]   a map[string]interface{}: Go maps are        *)
(*                            references, n is the address of the map node *)
(*                            in the heap (Merge)                          *)
(*   [k |-> "map", m |-> f]   a map held by value, where identity does not *)
(*                            matter (InspectStrings, TransformConfig)     *)
(***************************************************************************)
EXTENDS Integers, Sequences, FiniteSets, TLC

VARIABLES
    pc,        \* position of the modelled call: which operation has run
    heap,      \* Merge: sequence of map nodes, a node is a function key -> value
    a,         \* Merge: address of the first argument
    b,         \* Merge: address of the second argument
    result,    \* Merge: address of the returned map (0 before the call)
    snap,      \* Merge: deep values of a and b and heap size when Merge is called
    target,    \* Source: what i denotes: "ptr" (*struct), "struct", "other"
    rec,       \* Source: the record's fields, name -> value
    settings,  \* Source: the settings map, key -> value
    outcome,   \* Source: "nil", "NotAStruct", "TypeMismatch" or "panic"
    input,     \* InspectStrings: the value i
    fail,      \* InspectStrings: the strings the handler fails on
    order,     \* InspectStrings: the order in which a map's keys are visited
    ret,       \* InspectStrings: [v, err, panic, log] once the call has ended
    config,    \* TransformConfig: the SpinnakerConfig, [Profiles |-> ...]
    config0,   \* TransformConfig: the config before the first call
    prev,      \* TransformConfig: the config before the latest call
    terr,      \* TransformConfig: "nil" or "error", what the latest call returned
    runs       \* TransformConfig: the number of calls made

mergeVars == <<heap, a, b, result, snap>>
sourceVars == <<target, rec, settings, outcome>>
inspectVars == <<input, fail, order, ret>>
defaultsVars == <<config, config0, prev, terr, runs>>
vars == <<pc, mergeVars, sourceVars, inspectVars, defaultsVars>>

\* The variables of an operation a specification does not exercise.
Idle == <<>>
IdleMerge == heap = Idle /\ a = Idle /\ b = Idle /\ result = Idle /\ snap = Idle
IdleSource == target = Idle /\ rec = Idle /\ settings = Idle /\ outcome = Idle
IdleInspect == input = Idle /\ fail = Idle /\ order = Idle /\ ret = Idle
IdleDefaults ==
    config = Idle /\ config0 = Idle /\ prev = Idle /\ terr = Idle /\ runs = Idle

(***************************************************************************)
(* Bounds of the model.                                                    *)
(***************************************************************************)
MaxLen == 2      \* longest sequence drawn as an input
MaxNum == 2      \* numbers drawn as inputs are 1..MaxNum
MaxRuns == 2     \* calls of TransformConfig on one config

Nil == [k |-> "nil"]
Num(n) == [k |-> "num", n |-> n]
Str(s) == [k |-> "str", s |-> s]
Bool(v) == [k |-> "bool", b |-> v]
Seq_(e) == [k |-> "seq", e |-> e]
Ref(addr) == [k |-> "ref", a |-> addr]
MapV(m) == [k |-> "map", m |-> m]

EmptyMap == [z \in {} |-> Nil]

\* All sequences over S of length at most n.
SeqsUpTo(S, n) == UNION {[1..l -> S] : l \in 0..n}

\* All mappings from a subset of K to values of V.
MapsOver(K, V) == UNION {[D -> V] : D \in SUBSET K}

(***************************************************************************)
(* Merge                                                                   *)
(***************************************************************************)

\* av.(map[string]interface{}) succeeds
IsMap(v) == v.k = "ref"

\* reflect.ValueOf(v).Kind() == reflect.Slice
IsSlice(v) == v.k = "seq"

\* result[k] = v
Put(h, r, k, v) == [h EXCEPT ![r] = (k :> v) @@ @]

\* the slice built by the two Append loops
ConcatReversed(ar, br) == Seq_(br.e \o ar.e)
Concat(ar, br) == Seq_(ar.e \o br.e)

\* a key of a whose value is a map, b holds something that is not a map
MapVsOtherKeepsA(h, r, k, av, bv) == Put(h, r, k, av)
MapVsOther(h, r, k, av, bv) == Put(h, r, k, bv)

\* a key of a whose value is a slice, b holds something that is not a slice
SliceVsOther(h, r, k, av, bv) == Put(h, r, k, bv)

\* a key of a whose value is neither a map nor a slice
ScalarCase(h, r, k, av, inB, bv) ==
    IF inB THEN Put(h, r, k, bv) ELSE Put(h, r, k, av)

RECURSIVE Merge(_, _, _)
RECURSIVE MergeRangeA(_, _, _, _, _)

\* both values are maps: result[k] = Merge(avm, bvm)
BothMapsShareB(h, r, k, avm, bvm) == Put(h, r, k, Ref(bvm))
BothMaps(h, r, k, avm, bvm) ==
    LET m == Merge(h, avm, bvm) IN Put(m.h, r, k, Ref(m.r))

\* One iteration of `for k, av := range a`.
MergeKey(h, r, ma, mb, k) ==
    LET av == h[ma][k]
        inB == k \in DOMAIN h[mb]
        bv == IF inB THEN h[mb][k] ELSE Nil
    IN  IF IsMap(av)
        THEN IF inB
             THEN IF IsMap(bv)
                  THEN BothMaps(h, r, k, av.a, bv.a)
                  ELSE MapVsOther(h, r, k, av, bv)
             ELSE Put(h, r, k, av)
        ELSE IF IsSlice(av)
        THEN IF inB
             THEN IF IsSlice(bv)
                  THEN Put(h, r, k, Concat(av, bv))
                  ELSE SliceVsOther(h, r, k, av, bv)
             ELSE h            \* the code has no else branch here
        ELSE ScalarCase(h, r, k, av, inB, bv)

\* `for k, av := range a`; the order of the keys does not change the result.
MergeRangeA(h, r, ma, mb, ks) ==
    IF ks = {} THEN h
    ELSE LET k == CHOOSE x \in ks : TRUE
         IN  MergeRangeA(MergeKey(h, r, ma, mb, k), r, ma, mb, ks \ {k})

\* `for k, bv := range b`: the keys of b that a does not have.
MergeRangeB(h, r, ma, mb) ==
    LET only == DOMAIN h[mb] \ DOMAIN h[ma]
    IN  [h EXCEPT ![r] = [k \in only |-> h[mb][k]] @@ @]

\* Merge(a, b) on heap h: the heap after the call and the address returned.
Merge(h, ma, mb) ==
    LET r == Len(h) + 1
        h0 == Append(h, EmptyMap)          \* result := make(map[string]interface{})
        h1 == MergeRangeA(h0, r, ma, mb, DOMAIN h[ma])
    IN  [h |-> MergeRangeB(h1, r, ma, mb), r |-> r]

\* The value of the tree rooted at a map node, maps held by value.
RECURSIVE Deep(_, _)
Deep(h, addr) ==
    [k \in DOMAIN h[addr] |->
        IF h[addr][k].k = "ref" THEN MapV(Deep(h, h[addr][k].a)) ELSE h[addr][k]]

\* The map nodes reachable from a map node, itself included.
RECURSIVE Reach(_, _)
Reach(h, addr) ==
    {addr} \cup UNION {Reach(h, h[addr][k].a) :
                          k \in {x \in DOMAIN h[addr] : h[addr][x].k = "ref"}}

MKeys == {"x", "y"}
NestedKeys == {"p", "q"}
Nums == 1..MaxNum
Slices == {Seq_(e) : e \in SeqsUpTo(Nums, MaxLen)}
\* the values a nested map of an input holds
NestedVals == {Num(1), Seq_(<<1>>)}
NestedMaps == {MapV(m) : m \in MapsOver(NestedKeys, NestedVals)}
\* what an input holds at key "x", and the narrower choice at key "y"
ValsX == {Nil} \cup {Num(n) : n \in Nums} \cup Slices \cup NestedMaps
ValsY == {Num(1), Seq_(<<1>>), MapV([p |-> Num(1)])}
Trees == {m \in MapsOver(MKeys, ValsX \cup ValsY) :
             "y" \in DOMAIN m => m["y"] \in ValsY}

\* Allocate a tree held by value as map nodes on the heap.
RECURSIVE Build(_, _)
RECURSIVE BuildKeys(_, _, _, _)
BuildKeys(h, r, m, ks) ==
    IF ks = {} THEN h
    ELSE LET k == CHOOSE x \in ks : TRUE
             h1 == IF m[k].k = "map"
                   THEN LET n == Build(h, m[k].m) IN Put(n.h, r, k, Ref(n.r))
                   ELSE Put(h, r, k, m[k])
         IN  BuildKeys(h1, r, m, ks \ {k})
Build(h, m) ==
    LET r == Len(h) + 1
    IN  [h |-> BuildKeys(Append(h, EmptyMap), r, m, DOMAIN m), r |-> r]

InitMerge ==
    \E ta \in Trees, tb \in Trees :
        LET ba == Build(<<>>, ta)
            bb == Build(ba.h, tb)
        IN  /\ heap = bb.h
            /\ a = ba.r
            /\ b = bb.r
            /\ result = 0
            /\ snap = [a |-> ta, b |-> tb, n |-> Len(bb.h)]
            /\ pc = "start"
            /\ IdleSource
            /\ IdleInspect
            /\ IdleDefaults

\* result := Merge(a, b)
DoMerge ==
    /\ pc = "start"
    /\ LET m == Merge(heap, a, b)
       IN  /\ heap' = m.h
           /\ result' = m.r
    /\ pc' = "merged"
    /\ UNCHANGED <<a, b, snap, sourceVars, inspectVars, defaultsVars>>

\* The caller later writes a key of a nested map of the result:
\* result[k].(map[string]interface{})[j] = v
MutateResult ==
    /\ pc = "merged"
    /\ \E k \in DOMAIN heap[result], j \in NestedKeys :
          /\ heap[result][k].k = "ref"
          /\ heap' = Put(heap, heap[result][k].a, j, Num(MaxNum + 1))
    /\ pc' = "mutated"
    /\ UNCHANGED <<a, b, result, snap, sourceVars, inspectVars, defaultsVars>>

NextMerge == DoMerge \/ MutateResult

SpecMerge == InitMerge /\ [][NextMerge]_vars

(***************************************************************************)
(* Claims about Merge                                                      *)
(***************************************************************************)

\* The value held at a slot, maps by value.
ValueAt(h, v) == IF v.k = "ref" THEN MapV(Deep(h, v.a)) ELSE v

InBoth == DOMAIN snap.a \cap DOMAIN snap.b
OnlyInA == DOMAIN snap.a \ DOMAIN snap.b

\* C1: the keys of Merge(a,b) are keys(a) \cup keys(b), and a key that only a
\* has is in the result with a's value, whatever its kind.
C1_UnionOfKeys ==
    pc = "merged" =>
        /\ DOMAIN heap[result] = DOMAIN snap.a \cup DOMAIN snap.b
        /\ \A k \in OnlyInA :
              /\ k \in DOMAIN heap[result]
              /\ ValueAt(heap, heap[result][k]) = snap.a[k]

\* C2: for a key in both inputs whose values are not both maps and not both
\* sequences, the result holds b's value.
C2_Precedence ==
    pc = "merged" =>
        \A k \in InBoth :
            (/\ ~(snap.a[k].k = "map" /\ snap.b[k].k = "map")
             /\ ~(snap.a[k].k = "seq" /\ snap.b[k].k = "seq"))
            => /\ k \in DOMAIN heap[result]
               /\ ValueAt(heap, heap[result][k]) = snap.b[k]

\* a map meets a number at "x", a sequence meets a map at "y"
C2_Witness ==
    /\ pc = "merged"
    /\ InBoth = MKeys
    /\ snap.a["x"].k = "map" /\ snap.b["x"].k = "num"
    /\ snap.a["y"].k = "seq" /\ snap.b["y"].k = "map"
    /\ heap[result]["x"] = snap.b["x"]

\* C3: for a key whose value is a sequence in both inputs, the result holds
\* a's elements in order followed by b's elements in order.
C3_Concatenation ==
    pc = "merged" =>
        \A k \in InBoth :
            (snap.a[k].k = "seq" /\ snap.b[k].k = "seq")
            => /\ k \in DOMAIN heap[result]
               /\ heap[result][k].k = "seq"
               /\ heap[result][k].e = snap.a[k].e \o snap.b[k].e
               /\ Len(heap[result][k].e) = Len(snap.a[k].e) + Len(snap.b[k].e)

\* [2,1] and [1] give [2,1,1]: nothing reordered, nothing deduplicated; and
\* an empty sequence meets a non-empty one at the other key
C3_Witness ==
    /\ pc = "merged"
    /\ InBoth = MKeys
    /\ snap.a["x"] = Seq_(<<2, 1>>) /\ snap.b["x"] = Seq_(<<1>>)
    /\ heap[result]["x"] = Seq_(<<2, 1, 1>>)

C3_WitnessEmpty ==
    /\ pc = "merged"
    /\ "x" \in InBoth
    /\ snap.a["x"] = Seq_(<<>>) /\ snap.b["x"] = Seq_(<<1, 2>>)
    /\ heap[result]["x"] = Seq_(<<1, 2>>)

\* C4 as stated: no map node reachable from the result is a map node
\* reachable from a or b, so writing to a nested map of the result leaves a
\* and b as they were when Merge was called.
C4_NeverAliases ==
    /\ pc = "merged" =>
          Reach(heap, result) \cap (Reach(heap, a) \cup Reach(heap, b)) = {}
    /\ pc = "mutated" =>
          Deep(heap, a) = snap.a /\ Deep(heap, b) = snap.b

\* The map node r, merged from nodes ma and mb, is new, and so is every
\* nested node merged from two maps; any other nested map of r is the node
\* the input holds at that key (b's when b has the key, else a's).
RECURSIVE FreshWhereMerged(_, _, _, _, _)
FreshWhereMerged(h, n0, r, ma, mb) ==
    /\ r > n0
    /\ \A k \in DOMAIN h[r] :
          IF /\ k \in DOMAIN h[ma] \cap DOMAIN h[mb]
             /\ IsMap(h[ma][k]) /\ IsMap(h[mb][k])
          THEN /\ IsMap(h[r][k])
               /\ FreshWhereMerged(h, n0, h[r][k].a, h[ma][k].a, h[mb][k].a)
          ELSE IsMap(h[r][k]) =>
                  /\ h[r][k].a <= n0
                  /\ h[r][k] = IF k \in DOMAIN h[mb] THEN h[mb][k] ELSE h[ma][k]

\* C4 amended: Merge leaves a and b as they were; the root of the result and
\* every nested map merged from a map of a and a map of b are new nodes; a
\* nested map whose key only one input has, or that won by precedence, is
\* the input's own node.
C4_FreshWhereMerged ==
    pc = "merged" =>
        /\ Deep(heap, a) = snap.a
        /\ Deep(heap, b) = snap.b
        /\ FreshWhereMerged(heap, snap.n, result, a, b)

\* "x" is a map in a only (shared), "y" is a map in both (merged, new)
C4_Witness ==
    /\ pc = "merged"
    /\ "x" \in OnlyInA /\ snap.a["x"].k = "map"
    /\ "y" \in InBoth /\ snap.a["y"].k = "map" /\ snap.b["y"].k = "map"
    /\ heap[result]["x"] = heap[a]["x"]
    /\ heap[result]["y"].a > snap.n

(***************************************************************************)
(* Source                                                                  *)
(***************************************************************************)

\* The record sourced in the model, in declaration order:
\*   Name    string `json:"name"`
\*   Ports   []int  `json:"ports,omitempty"`
\*   Enabled bool   `json:"enabled"`
\*   Secret  string                        (no json tag)
\* A tag is the sequence of its comma-separated parts, <<>> when there is none;
\* a type is its reflect kind and, for a slice, its element type.
Fields == <<
    [name |-> "Name",    tag |-> <<"name">>,               type |-> [kind |-> "string"]],
    [name |-> "Ports",   tag |-> <<"ports", "omitempty">>, type |-> [kind |-> "slice", elem |-> [kind |-> "int"]]],
    [name |-> "Enabled", tag |-> <<"enabled">>,            type |-> [kind |-> "bool"]],
    [name |-> "Secret",  tag |-> <<>>,                     type |-> [kind |-> "string"]] >>

\* reflect.TypeOf of a value held in an interface{} (not defined for nil)
TypeOf(v) ==
    CASE v.k = "str"  -> [kind |-> "string"]
      [] v.k = "num"  -> [kind |-> "int"]
      [] v.k = "bool" -> [kind |-> "bool"]
      [] v.k = "seq"  -> [kind |-> "slice", elem |-> [kind |-> "interface"]]

\* t1.AssignableTo(t2), for the types of the model: identical types, or any
\* type to interface{}
AssignableTo(t1, t2) == t1 = t2 \/ t2 = [kind |-> "interface"]

\* Type.Elem() panics unless the kind is Array, Chan, Map, Ptr or Slice
HasElem(t) == t.kind \in {"slice", "array", "chan", "map", "ptr"}

\* toSpecificArray(array, target): [panic, err, v]
RECURSIVE ToSpecificLoop(_, _, _, _)
ToSpecificLoop(array, elemType, i, acc) ==
    IF i > Len(array.e) THEN [panic |-> FALSE, err |-> FALSE, v |-> Seq_(acc)]
    ELSE LET v == array.e[i]       \* Kind() == Interface, v = v.Elem()
         IN  IF v.k = "nil"
             THEN [panic |-> TRUE, err |-> FALSE, v |-> Nil]   \* Type() of the zero Value
             ELSE IF ~AssignableTo(TypeOf(v), elemType)
             THEN [panic |-> FALSE, err |-> TRUE, v |-> Nil]
             ELSE ToSpecificLoop(array, elemType, i + 1, Append(acc, v))

toSpecificArray(array, t) ==
    IF ~HasElem(t)
    THEN [panic |-> TRUE, err |-> FALSE, v |-> Nil]            \* target.Elem()
    ELSE ToSpecificLoop(array, t.elem, 1, <<>>)

\* v.FieldByName(f.Name).Set(x)
SetFieldDropped(r, name, x) == r
SetField(r, name, x) == [r EXCEPT ![name] = x]

\* The loop over the fields from field j on: [err, rec].
RECURSIVE SourceLoop(_, _, _, _)
SourceLoop(tk, r, st, j) ==
    IF j > Len(Fields) THEN [err |-> "nil", rec |-> r]
    ELSE LET f == Fields[j]
         IN  IF f.tag = <<>> THEN SourceLoop(tk, r, st, j + 1)
             ELSE LET s == f.tag[1]                 \* s[:p], up to the first comma
                  IN  IF s \notin DOMAIN st THEN SourceLoop(tk, r, st, j + 1)
                      ELSE LET sv == st[s]
                           IN  IF sv.k = "seq"
                               THEN LET av == toSpecificArray(sv, f.type)
                                    IN  IF av.panic THEN [err |-> "panic", rec |-> r]
                                        ELSE IF av.err THEN [err |-> "TypeMismatch", rec |-> r]
                                        \* Set panics on a field that is not addressable
                                        \* and on a value the field's type does not take
                                        ELSE IF tk # "ptr" \/ f.type.kind # "slice"
                                        THEN [err |-> "panic", rec |-> r]
                                        ELSE SourceLoop(tk, SetField(r, f.name, av.v), st, j + 1)
                               ELSE IF sv.k = "nil"
                               THEN [err |-> "panic", rec |-> r]       \* sv.Type() of the zero Value
                               ELSE IF ~AssignableTo(TypeOf(sv), f.type)
                               THEN [err |-> "TypeMismatch", rec |-> r]
                               ELSE IF tk # "ptr"
                               THEN [err |-> "panic", rec |-> r]
                               ELSE SourceLoop(tk, SetField(r, f.name, sv), st, j + 1)

\* Source(i, settings), i denoting the record r when it is a struct or a
\* pointer to one.
Source(tk, r, st) ==
    IF tk \notin {"ptr", "struct"}
    THEN [err |-> "NotAStruct", rec |-> r]
    ELSE SourceLoop(tk, r, st, 1)

SettingElems == {Num(1), Str("a"), Nil}
SettingScalars == {Str("a"), Num(1), Bool(TRUE), Nil}
SettingVals == SettingScalars \cup {Seq_(e) : e \in SeqsUpTo(SettingElems, MaxLen)}
\* a key that a settings map does not hold
Absent == [k |-> "absent"]
\* the map that holds the keys of choice c that are not Absent
Holding(c) == [k \in {x \in DOMAIN c : c[x] # Absent} |-> c[k]]
SettingsMaps ==
    {Holding(c) : c \in [name : SettingVals \cup {Absent},
                         ports : SettingVals \cup {Absent},
                         enabled : {Bool(TRUE), Str("a"), Nil, Absent},
                         secret : {Str("a"), Absent}]}

Rec0 == [Name |-> Str("old"), Ports |-> Seq_(<<Num(2)>>),
         Enabled |-> Bool(FALSE), Secret |-> Str("s")]

InitSource ==
    /\ pc = "call"
    /\ target \in {"ptr", "struct", "other"}
    /\ settings \in SettingsMaps
    /\ rec = Rec0
    /\ outcome = "none"
    /\ IdleMerge
    /\ IdleInspect
    /\ IdleDefaults

\* err := Source(i, settings)
DoSource ==
    /\ pc = "call"
    /\ LET r == Source(target, rec, settings)
       IN  /\ rec' = r.rec
           /\ outcome' = r.err
    /\ pc' = "sourced"
    /\ UNCHANGED <<target, settings, mergeVars, inspectVars, defaultsVars>>

NextSource == DoSource

SpecSource == InitSource /\ [][NextSource]_vars

(***************************************************************************)
(* Claims about Source                                                     *)
(***************************************************************************)

\* The setting value v fits a field of static type t: a sequence whose
\* elements all have the element type for a sequence field, a value of the
\* field's own type otherwise. Null fits no field of the record.
Fits(v, t) ==
    IF t.kind = "slice"
    THEN /\ v.k = "seq"
         /\ \A i \in 1..Len(v.e) : v.e[i].k # "nil" /\ TypeOf(v.e[i]) = t.elem
    ELSE v.k \notin {"seq", "nil"} /\ TypeOf(v) = t

Tagged(j) == Fields[j].tag # <<>>
Present(j) == Tagged(j) /\ Fields[j].tag[1] \in DOMAIN settings
Setting(j) == settings[Fields[j].tag[1]]
Offending(j) == Present(j) /\ ~Fits(Setting(j), Fields[j].type)

\* C5: when the key of some tagged field is present in settings with a value
\* that does not fit the field's static type, Source returns a
\* TypeMismatchError: it neither succeeds nor crashes.
C5_MismatchIsAnError ==
    (/\ pc = "sourced"
     /\ target \in {"ptr", "struct"}
     /\ \E j \in 1..Len(Fields) : Offending(j))
    => outcome = "TypeMismatch"

\* C6 as stated: when Source returns an error, every field of the record
\* holds the value it had before the call.
C6_NoPartialResult ==
    (pc = "sourced" /\ outcome \in {"NotAStruct", "TypeMismatch"}) => rec = Rec0

\* C6 amended: a NotAStructError leaves the record untouched; on a
\* TypeMismatchError at field j, field j and the fields declared after it hold
\* their prior values, and every field declared before it whose key is
\* present has been overwritten with its setting (the others hold their
\* prior values): the writes made before the failure are not rolled back.
C6_PrefixWritten ==
    /\ (pc = "sourced" /\ outcome = "NotAStruct") => rec = Rec0
    /\ (pc = "sourced" /\ outcome = "TypeMismatch") =>
          \E j \in 1..Len(Fields) :
              /\ Offending(j)
              /\ \A i \in 1..Len(Fields) :
                    rec[Fields[i].name] =
                        IF i < j /\ Present(i) THEN Setting(i)
                        ELSE Rec0[Fields[i].name]

\* Name was written from settings["name"], then settings["ports"] was
\* rejected, through a pointer to the record
C6_Witness ==
    /\ pc = "sourced"
    /\ target = "ptr"
    /\ outcome = "TypeMismatch"
    /\ "name" \in DOMAIN settings /\ "ports" \in DOMAIN settings
    /\ settings["ports"] = Seq_(<<Num(1), Str("a")>>)
    /\ rec.Name = settings["name"]
    /\ rec.Name # Rec0.Name
    /\ rec.Ports = Rec0.Ports

(***************************************************************************)
(* InspectStrings                                                          *)
(*                                                                         *)
(* Further values: [k |-> "ptr", p |-> v] a non-nil pointer to v,          *)
(* [k |-> "nilptr"] a nil pointer, [k |-> "struct", f |-> <<...>>] a       *)
(* struct with its field values in declaration order, and                  *)
(* [k |-> "invalid"], the zero reflect.Value.                              *)
(***************************************************************************)
Ptr(v) == [k |-> "ptr", p |-> v]
NilPtr == [k |-> "nilptr"]
Struct(f) == [k |-> "struct", f |-> f]
Invalid == [k |-> "invalid"]

NoErr == <<>>
\* the error the handler returns for string s
HandlerErr(s) == <<s>>

\* what the handler returns for a string it accepts
Rewrite == [a |-> "A", b |-> "B"]

\* what a call returns: value, error, whether it panicked, and the strings
\* the handler has been called on so far
R(v, err, log) == [v |-> v, err |-> err, panic |-> FALSE, log |-> log]
Panic(log) == [v |-> Invalid, err |-> NoErr, panic |-> TRUE, log |-> log]

\* `return v, err`: v is the value the call was given, not the copy built so far
OnErrorPartial(v, partial) == partial
OnError(v, partial) == v

\* case reflect.String
InspectString(v, bad, log) ==
    IF v.s \in bad
    THEN R(v, HandlerErr(v.s), Append(log, v.s))
    ELSE R(Str(Rewrite[v.s]), NoErr, Append(log, v.s))

\* nmv.SetMapIndex(k, rv): the zero Value deletes the key
SetMapIndex(acc, k, rv) ==
    IF rv = Invalid THEN [x \in DOMAIN acc \ {k} |-> acc[x]] ELSE (k :> rv) @@ acc

RECURSIVE inspectStringReflect(_, _, _, _)
RECURSIVE InspectSlice(_, _, _, _, _, _)
RECURSIVE InspectMap(_, _, _, _, _, _)
RECURSIVE InspectStruct(_, _, _, _, _, _)

\* case reflect.Slice, from index j on; acc holds nsv[1..j-1]
InspectSlice(v, bad, ord, j, acc, log) ==
    IF j > Len(v.e) THEN R(Seq_(acc), NoErr, log)
    ELSE LET r == inspectStringReflect(v.e[j], bad, ord, log)
         IN  IF r.panic THEN r
             ELSE IF r.err # NoErr
             THEN R(OnError(v, Seq_(acc \o SubSeq(v.e, j, Len(v.e)))), r.err, r.log)
             ELSE IF r.v = Invalid THEN Panic(r.log)       \* Set(zero Value)
             ELSE InspectSlice(v, bad, ord, j + 1, Append(acc, r.v), r.log)

\* case reflect.Map, ks the keys still to visit; acc is nmv
InspectMap(v, bad, ord, ks, acc, log) ==
    IF ks = <<>> THEN R(MapV(acc), NoErr, log)
    ELSE LET k == Head(ks)
             r == inspectStringReflect(v.m[k], bad, ord, log)
         IN  IF r.panic THEN r
             ELSE IF r.err # NoErr THEN R(OnError(v, MapV(acc)), r.err, r.log)
             ELSE InspectMap(v, bad, ord, Tail(ks), SetMapIndex(acc, k, r.v), r.log)

\* case reflect.Struct, from field j on; acc holds the fields set so far
InspectStruct(v, bad, ord, j, acc, log) ==
    IF j > Len(v.f) THEN R(Struct(acc), NoErr, log)
    ELSE LET r == inspectStringReflect(v.f[j], bad, ord, log)
         IN  IF r.panic THEN r
             ELSE IF r.err # NoErr
             THEN R(OnError(v, Struct(acc \o SubSeq(v.f, j, Len(v.f)))), r.err, r.log)
             ELSE IF r.v = Invalid THEN Panic(r.log)       \* nf.Set(zero Value)
             ELSE InspectStruct(v, bad, ord, j + 1, Append(acc, r.v), r.log)

inspectStringReflect(v, bad, ord, log) ==
    CASE v.k = "ptr" ->
            LET r == inspectStringReflect(v.p, bad, ord, log)
            IN  IF r.panic THEN r
                ELSE IF r.err # NoErr THEN R(OnError(v, Ptr(r.v)), r.err, r.log)
                ELSE IF r.v = Invalid THEN Panic(r.log)
                ELSE R(Ptr(r.v), NoErr, r.log)
      [] v.k = "nilptr" ->
            \* v.Elem() is the zero Value: the recursive call returns it, and
            \* v.Elem().Type() panics
            Panic(log)
      [] v.k = "struct" -> InspectStruct(v, bad, ord, 1, <<>>, log)
      [] v.k = "str" -> InspectString(v, bad, log)
      [] v.k = "seq" ->
            IF Len(v.e) = 0 THEN R(v, NoErr, log)
            ELSE InspectSlice(v, bad, ord, 1, <<>>, log)
      [] v.k = "map" ->
            InspectMap(v, bad, ord, SelectSeq(ord, LAMBDA k : k \in DOMAIN v.m),
                       EmptyMap, log)
      [] v.k = "nil" ->
            \* a nil interface: v.Elem() is the zero Value, returned as it is
            R(Invalid, NoErr, log)
      [] OTHER -> R(v, NoErr, log)

\* InspectStrings(i, handler): t.Interface() panics on the zero Value
InspectStrings(i, bad, ord) ==
    LET t == inspectStringReflect(i, bad, ord, <<>>)
    IN  IF t.panic THEN t
        ELSE IF t.v = Invalid THEN Panic(t.log)
        ELSE t

IKeys == {"x", "y"}
Strings == DOMAIN Rewrite
Leaves == {Nil, Num(1), NilPtr} \cup {Str(s) : s \in Strings} \cup {Ptr(Str("a"))}
\* struct { Name string; Opt interface{} }
Structs == {Struct(<<n, o>>) : n \in {Str(s) : s \in Strings}, o \in Leaves}
Level1 == Leaves
          \cup {Seq_(e) : e \in SeqsUpTo(Leaves, MaxLen)}
          \cup {MapV(m) : m \in MapsOver(IKeys, Leaves)}
          \cup Structs
Inputs == Level1
          \cup {Seq_(<<u>>) : u \in Level1}
          \cup {Seq_(<<Str("a"), u>>) : u \in Level1}
          \cup {MapV([x |-> u]) : u \in Level1}
          \cup {MapV([x |-> u, y |-> Str("b")]) : u \in Level1}
          \cup {Ptr(u) : u \in Structs}
          \cup {Struct(<<Str("a"), u>>) : u \in Level1}

InitInspect ==
    /\ pc = "inspect"
    /\ input \in Inputs
    /\ fail \in SUBSET Strings
    /\ order \in {<<"x", "y">>, <<"y", "x">>}
    /\ ret = Idle
    /\ IdleMerge
    /\ IdleSource
    /\ IdleDefaults

\* t, err := InspectStrings(i, handler)
DoInspect ==
    /\ pc = "inspect"
    /\ ret' = InspectStrings(input, fail, order)
    /\ pc' = "inspected"
    /\ UNCHANGED <<input, fail, order, mergeVars, sourceVars, defaultsVars>>

NextInspect == DoInspect

SpecInspect == InitInspect /\ [][NextInspect]_vars

(***************************************************************************)
(* Claims about InspectStrings                                             *)
(***************************************************************************)

\* v with every string leaf replaced by the same mark: the shape of v.
RECURSIVE ShapeOf(_)
ShapeOf(v) ==
    CASE v.k = "str" -> Str("*")
      [] v.k = "seq" -> Seq_([i \in 1..Len(v.e) |-> ShapeOf(v.e[i])])
      [] v.k = "map" -> MapV([k \in DOMAIN v.m |-> ShapeOf(v.m[k])])
      [] v.k = "struct" -> Struct([i \in 1..Len(v.f) |-> ShapeOf(v.f[i])])
      [] v.k = "ptr" -> Ptr(ShapeOf(v.p))
      [] OTHER -> v

\* The strings that occur in v.
RECURSIVE StringsOf(_)
StringsOf(v) ==
    CASE v.k = "str" -> {v.s}
      [] v.k = "seq" -> UNION {StringsOf(v.e[i]) : i \in 1..Len(v.e)}
      [] v.k = "map" -> UNION {StringsOf(v.m[k]) : k \in DOMAIN v.m}
      [] v.k = "struct" -> UNION {StringsOf(v.f[i]) : i \in 1..Len(v.f)}
      [] v.k = "ptr" -> StringsOf(v.p)
      [] OTHER -> {}

\* v holds a nil interface or a nil pointer somewhere.
RECURSIVE HasNil(_)
HasNil(v) ==
    CASE v.k \in {"nil", "nilptr"} -> TRUE
      [] v.k = "seq" -> \E i \in 1..Len(v.e) : HasNil(v.e[i])
      [] v.k = "map" -> \E k \in DOMAIN v.m : HasNil(v.m[k])
      [] v.k = "struct" -> \E i \in 1..Len(v.f) : HasNil(v.f[i])
      [] v.k = "ptr" -> HasNil(v.p)
      [] OTHER -> FALSE

\* w holds every nil of u, where u holds it.
RECURSIVE NilsKept(_, _)
NilsKept(u, w) ==
    CASE u.k \in {"nil", "nilptr"} -> w = u
      [] u.k = "seq" ->
            /\ w.k = "seq" /\ Len(w.e) = Len(u.e)
            /\ \A i \in 1..Len(u.e) : NilsKept(u.e[i], w.e[i])
      [] u.k = "map" ->
            /\ w.k = "map"
            /\ \A k \in DOMAIN u.m : k \in DOMAIN w.m /\ NilsKept(u.m[k], w.m[k])
      [] u.k = "struct" ->
            /\ w.k = "struct" /\ Len(w.f) = Len(u.f)
            /\ \A i \in 1..Len(u.f) : NilsKept(u.f[i], w.f[i])
      [] u.k = "ptr" -> w.k = "ptr" /\ NilsKept(u.p, w.p)
      [] OTHER -> TRUE

\* C7: with a handler that never fails, InspectStrings(v, handler) has the
\* shape of v at every depth: same sequence lengths, same key sets (keys
\* whose value is null included), same record fields; only strings differ.
C7_ShapePreserved ==
    (pc = "inspected" /\ fail = {}) =>
        /\ ~ret.panic
        /\ ret.err = NoErr
        /\ ShapeOf(ret.v) = ShapeOf(input)

\* the handler was called on a string it fails on
HandlerFailed == \E i \in 1..Len(ret.log) : ret.log[i] \in fail

\* C8: when the handler fails on a string of v, InspectStrings returns that
\* handler error, the handler is called on no string after the one it failed
\* on, and the value returned holds no string the handler rewrote (it is the
\* value passed in).
C8_FailurePropagates ==
    (pc = "inspected" /\ HandlerFailed) =>
        /\ ~ret.panic
        /\ ret.err = HandlerErr(ret.log[Len(ret.log)])
        /\ ret.log[Len(ret.log)] \in fail
        /\ \A i \in 1..(Len(ret.log) - 1) : ret.log[i] \notin fail
        /\ StringsOf(ret.v) \cap {Rewrite[s] : s \in Strings} = {}
        /\ ret.v = input

\* the handler rewrote "a" and then failed on "b", deeper in the value
C8_Witness ==
    /\ pc = "inspected"
    /\ fail = {"b"}
    /\ ret.log = <<"a", "b">>
    /\ input.k = "seq" /\ Len(input.e) = 2 /\ input.e[2].k \in {"seq", "map", "struct"}
    /\ ret.err = HandlerErr("b")
    /\ ret.v = input

\* C9: a nil reference is returned unchanged and without error wherever it
\* occurs (top level, record field, sequence element, mapping value): the
\* call completes normally and the result holds the nil where v holds it.
C9_NilUnchanged ==
    (pc = "inspected" /\ HasNil(input)) =>
        /\ ~ret.panic
        /\ (ret.err = NoErr => NilsKept(input, ret.v))

(***************************************************************************)
(* defaultsTransformer                                                     *)
(*                                                                         *)
(* A profile (interfaces.FreeForm) is a function key -> value; the config  *)
(* is [Profiles |-> Nil] or [Profiles |-> MapV(name -> profile)]. The      *)
(* transformer owns the config, so maps are held by value here.            *)
(***************************************************************************)

\* bom.JavaServices(), cut to two services
JavaServices == <<"clouddriver", "gate">>
\* a profile of a service that is not a Java service
OtherProfiles == {"deck"}

\* setArchaiusDefaultsForProfile with the default also written over a value
\* that is already there
setArchaiusOverwrites(profile) ==
    IF "archaius" \notin DOMAIN profile
    THEN [profile |-> ("archaius" :> MapV([enabled |-> Bool(FALSE)])) @@ profile,
          err |-> "nil"]
    ELSE IF profile["archaius"].k # "map"
    THEN [profile |-> profile, err |-> "error"]
    ELSE [profile |-> [profile EXCEPT !["archaius"] =
                          MapV(("enabled" :> Bool(FALSE)) @@ @.m)],
          err |-> "nil"]

\* setArchaiusDefaultsForProfile(profile, profileName): the profile after the
\* call (the map is updated in place) and the error
setArchaiusDefaultsForProfile(profile) ==
    IF "archaius" \notin DOMAIN profile
    THEN [profile |-> ("archaius" :> MapV([enabled |-> Bool(FALSE)])) @@ profile,
          err |-> "nil"]
    ELSE LET archaius_ == profile["archaius"]
         IN  IF archaius_.k # "map"
             THEN [profile |-> profile, err |-> "error"]
             ELSE IF "enabled" \in DOMAIN archaius_.m
             THEN [profile |-> profile, err |-> "nil"]
             ELSE [profile |-> [profile EXCEPT !["archaius"] =
                                   MapV(("enabled" :> Bool(FALSE)) @@ archaius_.m)],
                   err |-> "nil"]

\* assertProfile(config, profileName): the config with Profiles made and the
\* profile created when missing
assertProfile(cfg, profileName) ==
    LET profiles == IF cfg.Profiles = Nil THEN EmptyMap ELSE cfg.Profiles.m
    IN  IF profileName \in DOMAIN profiles
        THEN [Profiles |-> MapV(profiles)]
        ELSE [Profiles |-> MapV((profileName :> EmptyMap) @@ profiles)]

\* setArchaiusDefaults from the j-th Java service on: [config, err]
RECURSIVE setArchaiusDefaults(_, _)
setArchaiusDefaults(cfg, j) ==
    IF j > Len(JavaServices) THEN [config |-> cfg, err |-> "nil"]
    ELSE LET profileName == JavaServices[j]
             c1 == assertProfile(cfg, profileName)
             r == setArchaiusDefaultsForProfile(c1.Profiles.m[profileName])
             c2 == [Profiles |-> MapV([c1.Profiles.m EXCEPT ![profileName] = r.profile])]
         IN  IF r.err # "nil"
             THEN [config |-> c2, err |-> "error"]
             ELSE setArchaiusDefaults(c2, j + 1)

\* TransformConfig(ctx): the error of setArchaiusDefaults, wrapped
TransformConfig(cfg) == setArchaiusDefaults(cfg, 1)

ArchaiusMaps ==
    {MapV(m) : m \in {f \in MapsOver({"enabled", "port"},
                                    {Bool(TRUE), Bool(FALSE), Nil, Num(1)}) :
                         /\ "enabled" \in DOMAIN f => f["enabled"] # Num(1)
                         /\ "port" \in DOMAIN f => f["port"] = Num(1)}}
ArchaiusVals == {Nil, Num(1), Seq_(<<>>)} \cup ArchaiusMaps
ProfileVals ==
    {f \in MapsOver({"archaius", "server"}, ArchaiusVals \cup {Str("a")}) :
        /\ "archaius" \in DOMAIN f => f["archaius"] \in ArchaiusVals
        /\ "server" \in DOMAIN f => f["server"] = Str("a")}
OtherProfileVals ==
    {EmptyMap, [archaius |-> Num(1)], [archaius |-> MapV(EmptyMap)]}
ProfileNames == {JavaServices[i] : i \in 1..Len(JavaServices)} \cup OtherProfiles
Configs ==
    {[Profiles |-> Nil]} \cup
    {[Profiles |-> MapV(m)] :
        m \in {f \in MapsOver(ProfileNames, ProfileVals \cup OtherProfileVals) :
                  \A n \in DOMAIN f :
                      IF n \in OtherProfiles THEN f[n] \in OtherProfileVals
                      ELSE f[n] \in ProfileVals}}

InitDefaults ==
    /\ pc = "transform"
    /\ config \in Configs
    /\ config0 = config
    /\ prev = config
    /\ terr = "nil"
    /\ runs = 0
    /\ IdleMerge
    /\ IdleSource
    /\ IdleInspect

\* err := a.TransformConfig(ctx)
DoTransformConfig ==
    /\ pc = "transform"
    /\ runs < MaxRuns
    /\ LET r == TransformConfig(config)
       IN  /\ config' = r.config
           /\ terr' = r.err
    /\ prev' = config
    /\ runs' = runs + 1
    /\ UNCHANGED <<pc, config0, mergeVars, sourceVars, inspectVars>>

NextDefaults == DoTransformConfig

SpecDefaults == InitDefaults /\ [][NextDefaults]_vars

(***************************************************************************)
(* Claims about the defaults transformer                                   *)
(***************************************************************************)
JavaNames == {JavaServices[i] : i \in 1..Len(JavaServices)}

Profiles0 == IF config0.Profiles = Nil THEN EmptyMap ELSE config0.Profiles.m

\* archaius of profile n was a map before the first call
HadArchaiusMap(n) ==
    /\ n \in DOMAIN Profiles0
    /\ "archaius" \in DOMAIN Profiles0[n]
    /\ Profiles0[n]["archaius"].k = "map"

\* archaius.enabled of profile n was defined before the first call
HadEnabled(n) ==
    HadArchaiusMap(n) /\ "enabled" \in DOMAIN Profiles0[n]["archaius"].m

\* archaius of profile n was defined, and not a map, before the first call
HadBadArchaius(n) ==
    /\ n \in DOMAIN Profiles0
    /\ "archaius" \in DOMAIN Profiles0[n]
    /\ Profiles0[n]["archaius"].k # "map"

\* every key but archaius.enabled of every profile is as it was, and no
\* other key and no other profile has appeared
OthersUnchanged ==
    LET ps == config.Profiles.m
    IN  /\ DOMAIN ps = DOMAIN Profiles0 \cup JavaNames
        /\ \A n \in DOMAIN ps \ JavaNames : ps[n] = Profiles0[n]
        /\ \A n \in JavaNames :
              LET p0 == IF n \in DOMAIN Profiles0 THEN Profiles0[n] ELSE EmptyMap
                  a0 == IF HadArchaiusMap(n) THEN p0["archaius"].m ELSE EmptyMap
              IN  /\ DOMAIN ps[n] = DOMAIN p0 \cup {"archaius"}
                  /\ \A key \in DOMAIN p0 \ {"archaius"} : ps[n][key] = p0[key]
                  /\ DOMAIN ps[n]["archaius"].m = DOMAIN a0 \cup {"enabled"}
                  /\ \A key \in DOMAIN a0 \ {"enabled"} :
                        ps[n]["archaius"].m[key] = a0[key]

C10_WitnessError ==
    /\ runs = 1 /\ terr = "error"
    /\ HadBadArchaius("gate") /\ ~HadBadArchaius("clouddriver")
    /\ config.Profiles.m["gate"] = Profiles0["gate"]
    /\ config # config0

====
